---- MODULE Spec2Model ----
(***************************************************************************)
(* Quelldex VCS (src/src/core/vcs.py): a content-addressed object store,   *)
(* a commits/branches/current_state/tags metadata store and the working    *)
(* tree they manage.                                                        *)
(*                                                                         *)
(* Modelling decisions, all stated where they are used:                    *)
(*  - bytes are records tagged with their kind ("raw" file bytes, "json"   *)
(*    serialised snapshots, "text" the commit-id string); the digest of    *)
(*    a byte string wraps it, so digests are injective: the truncated      *)
(*    sha256 is assumed collision free, as the repository does;            *)
(*  - the clock (time.time(), st_mtime) is a logical clock that advances   *)
(*    between a commit and whatever is written or committed after it;      *)
(*  - file system calls do not fail (no unreadable file, no full disk),    *)
(*    and paths are flat names, so no directory stands where a file goes;  *)
(*  - branch and tag names are non-empty strings, as every caller in       *)
(*    src/src/ui/app.py guarantees.                                        *)
(***************************************************************************)
EXTENDS Integers, Sequences, FiniteSets, TLC

VARIABLES
    objects,         \* objects/<2 hex>/<rest>: digest -> bytes
    commits,         \* table commits: id -> row
    branches,        \* table branches: name -> row
    current_branch,  \* table current_state, key 'current_branch'
    tags,            \* table tags: name -> row
    tree,            \* the tracked files of the working tree: path -> file
    now,             \* the clock read by time.time() and by st_mtime
    last,            \* the call that produced this state and what it returned
    steps,           \* how many calls and edits the run has made
    calls,           \* _store_object / _read_object calls made by racing threads
    scanner          \* _FileScanWorker, the projects' file caches and its signals

vars == <<objects, commits, branches, current_branch, tags, tree, now, last, steps,
          calls, scanner>>

--------------------------------------------------------------------------
(* Bounds and input sets *)

\* the length of a run: calls of the VCS plus edits of the working tree
MaxOps == 7

\* the length of a run of edits, commits and branch calls under change
\* detection
MaxChangeOps == 6

\* the length of a run in which object files can be lost
MaxRestoreOps == 6

PathSeq == <<"x.txt", "y.txt">>
Paths == {PathSeq[i] : i \in 1..Len(PathSeq)}

Raw(b) == [kind |-> "raw", bytes |-> b]
\* the bytes a run writes to each path: x.txt holds one of two byte strings of
\* the same length, y.txt is an empty file
Contents(p) == IF p = "x.txt" THEN {Raw(<<1>>), Raw(<<2>>)} ELSE {Raw(<<>>)}

\* the bytes an editor that sets the file time back writes: those of a run and,
\* for x.txt, a byte string of another length
ForcedContents(p) == IF p = "x.txt" THEN Contents(p) \cup {Raw(<<1, 2>>)} ELSE Contents(p)

\* 0.001 seconds, the clock counting half milliseconds
Epsilon == 2

\* how far from the time the file had an editor sets the file time
MtimeOffsets == {0 - Epsilon, 0 - 1, 0, 1, Epsilon}

\* the threads that race on one object: two call _store_object(RaceBytes), two
\* call _read_object(hash_content(RaceBytes))
Writers == {"s1", "s2"}
Readers == {"r1", "r2"}
RaceBytes == Raw(<<1, 2>>)

\* the calls of _FileScanWorker.scan in a run
MaxScans == 3

\* the projects of the workspace and the files scan_directory finds under each
Projects == {"A", "B"}
DirFiles(root) == IF root = [dir |-> "A"] THEN <<"a.py">> ELSE <<"b.csv">>

BranchNames == {"main", "feat"}
TagNames == {"v1"}
Messages == {<<"m">>}

--------------------------------------------------------------------------
(* Python values *)

NoBytes == [kind |-> "none"]
None == [sha |-> NoBytes]
NoBranch == ""
EmptyMap == [p \in {} |-> NoBytes]

\* self._path = None, self._project = None
NoPath == [dir |-> ""]
NoProject == ""

\* str(project.path)
ProjectPath(project) == [dir |-> project]

\* len(content) of the bytes of a file
len(content) == Len(content.bytes)

--------------------------------------------------------------------------
(* Object storage *)

hash_content(content) == [sha |-> content]

\* the exists test inverted: a new object is never written
store_object_inverted(objs, content) ==
    LET h == hash_content(content)
    IN  [h |-> h, objects |-> objs]

\* no exists test and the file opened for appending
store_object_append(objs, content) ==
    LET h == hash_content(content)
    IN  [h |-> h,
         objects |-> [d \in DOMAIN objs \cup {h} |->
                         IF d # h THEN objs[d]
                         ELSE IF h \notin DOMAIN objs THEN content
                         ELSE IF content.kind = "raw"
                         THEN [content EXCEPT !.bytes = objs[h].bytes \o content.bytes]
                         ELSE [content EXCEPT !.entries = objs[h].entries \o content.entries]]]

\* the objects directory is emptied before a new object is written
store_object_single(objs, content) ==
    LET h == hash_content(content)
    IN  [h |-> h,
         objects |-> IF h \in DOMAIN objs
                     THEN objs
                     ELSE [d \in {h} |-> content]]

store_object(objs, content) ==
    LET h == hash_content(content)
    IN  [h |-> h,
         objects |-> IF h \in DOMAIN objs
                     THEN objs
                     ELSE [d \in DOMAIN objs \cup {h} |->
                              IF d = h THEN content ELSE objs[d]]]

read_object(objs, h) == IF h \in DOMAIN objs THEN objs[h] ELSE NoBytes

--------------------------------------------------------------------------
(* Snapshots *)

\* files.sort(): the tracked paths in ascending order
get_tracked_files(tr) == SelectSeq(PathSeq, LAMBDA p : p \in DOMAIN tr)

\* an empty file is taken for an unreadable one and skipped
RECURSIVE snapshot_files_skip_empty(_, _, _, _)
snapshot_files_skip_empty(files, tr, objs, snapshot) ==
    IF files = <<>>
    THEN [snapshot |-> snapshot, objects |-> objs]
    ELSE LET rel == Head(files)
             content == tr[rel].content
             st == store_object(objs, content)
             info == [hash |-> st.h, size |-> len(content), mtime |-> tr[rel].mtime]
         IN  IF len(content) = 0
             THEN snapshot_files_skip_empty(Tail(files), tr, objs, snapshot)
             ELSE snapshot_files_skip_empty(Tail(files), tr, st.objects,
                      [p \in DOMAIN snapshot \cup {rel} |->
                          IF p = rel THEN info ELSE snapshot[p]])

\* the recorded mtime loses its low digits: whole multiples of two milliseconds
RECURSIVE snapshot_files_truncated_mtime(_, _, _, _)
snapshot_files_truncated_mtime(files, tr, objs, snapshot) ==
    IF files = <<>>
    THEN [snapshot |-> snapshot, objects |-> objs]
    ELSE LET rel == Head(files)
             content == tr[rel].content
             st == store_object(objs, content)
             info == [hash |-> st.h, size |-> len(content),
                      mtime |-> tr[rel].mtime - (tr[rel].mtime % (2 * Epsilon))]
         IN  snapshot_files_truncated_mtime(Tail(files), tr, st.objects,
                 [p \in DOMAIN snapshot \cup {rel} |->
                     IF p = rel THEN info ELSE snapshot[p]])

RECURSIVE snapshot_files(_, _, _, _)
snapshot_files(files, tr, objs, snapshot) ==
    IF files = <<>>
    THEN [snapshot |-> snapshot, objects |-> objs]
    ELSE LET rel == Head(files)
             content == tr[rel].content
             st == store_object(objs, content)
             info == [hash |-> st.h, size |-> len(content), mtime |-> tr[rel].mtime]
         IN  snapshot_files(Tail(files), tr, st.objects,
                 [p \in DOMAIN snapshot \cup {rel} |->
                     IF p = rel THEN info ELSE snapshot[p]])

take_snapshot(tr, objs) == snapshot_files(get_tracked_files(tr), tr, objs, EmptyMap)

\* json.dumps(snapshot, sort_keys=True).encode()
json_dumps(snapshot) ==
    LET keys == SelectSeq(PathSeq, LAMBDA p : p \in DOMAIN snapshot)
    IN  [kind |-> "json",
         entries |-> [i \in 1..Len(keys) |->
                         [path |-> keys[i],
                          hash |-> snapshot[keys[i]].hash,
                          mtime |-> snapshot[keys[i]].mtime,
                          size |-> snapshot[keys[i]].size]]]

\* json.loads(data.decode())
json_loads(data) ==
    [p \in {data.entries[i].path : i \in DOMAIN data.entries} |->
        LET e == data.entries[CHOOSE i \in DOMAIN data.entries : data.entries[i].path = p]
        IN  [hash |-> e.hash, size |-> e.size, mtime |-> e.mtime]]

\* a file that is on disk already is not written again
restore_snapshot_missing_only(tr, objs, snapshot, t) ==
    LET kept == {rel \in DOMAIN tr : rel \in DOMAIN snapshot}
        written == {rel \in DOMAIN snapshot \ DOMAIN tr :
                       read_object(objs, snapshot[rel].hash) # NoBytes}
    IN  [rel \in kept \cup written |->
            IF rel \in written
            THEN [content |-> read_object(objs, snapshot[rel].hash), mtime |-> t]
            ELSE tr[rel]]

\* the files the snapshot does not name are left on disk
restore_snapshot_keep_untracked(tr, objs, snapshot, t) ==
    LET written == {rel \in DOMAIN snapshot :
                       read_object(objs, snapshot[rel].hash) # NoBytes}
    IN  [rel \in DOMAIN tr \cup written |->
            IF rel \in written
            THEN [content |-> read_object(objs, snapshot[rel].hash), mtime |-> t]
            ELSE tr[rel]]

\* a file whose object is missing is removed from the tree
restore_snapshot_delete_missing(tr, objs, snapshot, t) ==
    LET written == {rel \in DOMAIN snapshot :
                       read_object(objs, snapshot[rel].hash) # NoBytes}
    IN  [rel \in written |->
            [content |-> read_object(objs, snapshot[rel].hash), mtime |-> t]]

\* write_bytes leaves the file with the bytes and the mtime of the write
restore_snapshot(tr, objs, snapshot, t) ==
    LET kept == {rel \in DOMAIN tr : rel \in DOMAIN snapshot}
        written == {rel \in DOMAIN snapshot :
                       read_object(objs, snapshot[rel].hash) # NoBytes}
    IN  [rel \in kept \cup written |->
            IF rel \in written
            THEN [content |-> read_object(objs, snapshot[rel].hash), mtime |-> t]
            ELSE tr[rel]]

--------------------------------------------------------------------------
(* Change detection *)

\* _file_index(): {rel_path: (mtime, size)}, no content read
file_index(tr) ==
    [rel \in DOMAIN tr |-> [mtime |-> tr[rel].mtime, size |-> len(tr[rel].content)]]

\* abs(x)
abs(x) == IF x < 0 THEN 0 - x ELSE x

\* the fast path without its tolerance: the times must be equal
unchanged_exact(old, mtime, size) == old.mtime = mtime /\ old.size = size

\* the fast path: the baseline entry and the index entry match
unchanged(old, mtime, size) == abs(old.mtime - mtime) < Epsilon /\ old.size = size

\* the loops of get_working_changes over the index and over the baseline
classify(last_snap, current_index) ==
    [added |->
        [rel \in {r \in DOMAIN current_index : r \notin DOMAIN last_snap} |->
            [size |-> current_index[rel].size, mtime |-> current_index[rel].mtime]],
     modified |->
        [rel \in {r \in DOMAIN current_index :
                     /\ r \in DOMAIN last_snap
                     /\ ~unchanged(last_snap[r], current_index[r].mtime,
                                   current_index[r].size)} |->
            [old |-> last_snap[rel],
             new |-> [size |-> current_index[rel].size,
                      mtime |-> current_index[rel].mtime]]],
     removed |->
        [rel \in {r \in DOMAIN last_snap : r \notin DOMAIN current_index} |->
            last_snap[rel]]]

(* Commits *)

\* every branch reads as a branch without a head
get_branch_head_none(brs, branch) == None

get_branch_head(brs, branch) ==
    IF branch \in DOMAIN brs THEN brs[branch].head_commit ELSE None

\* f"{branch}:{ts}:{message}:{snap_hash}".encode()
commit_text(branch, ts, message, snap_hash) ==
    [kind |-> "text", branch |-> branch, ts |-> ts, message |-> message,
     snap |-> snap_hash]

\* the parent's row is folded into the new row
insert_commit_squash(cms, row) ==
    [c \in (DOMAIN cms \ {row.parent_id}) \cup {row.id} |->
        IF c = row.id THEN row ELSE cms[c]]

\* the INSERT is lost, the UPDATE of the head is not
insert_commit_dropped(cms, row) == cms

\* INSERT INTO commits (id, ...) VALUES (...)
insert_commit(cms, row) ==
    [c \in DOMAIN cms \cup {row.id} |-> IF c = row.id THEN row ELSE cms[c]]

\* the UPDATE without its WHERE clause
update_head_all(brs, branch, cid) ==
    [b \in DOMAIN brs |-> [brs[b] EXCEPT !.head_commit = cid]]

\* UPDATE branches SET head_commit = ? WHERE name = ?
update_head(brs, branch, cid) ==
    [b \in DOMAIN brs |->
        IF b = branch THEN [brs[b] EXCEPT !.head_commit = cid] ELSE brs[b]]

\* every commit is stored without a parent
record_commit_orphan(objs, cms, brs, branch, snapshot, t, message) ==
    LET st == store_object(objs, json_dumps(snapshot))
        snap_hash == st.h
        parent == None
        ts == t
        cid == hash_content(commit_text(branch, ts, message, snap_hash))
        row == [id |-> cid, branch |-> branch, parent_id |-> parent,
                timestamp |-> ts, message |-> message, author |-> "user",
                snapshot |-> snap_hash]
    IN  IF cid \in DOMAIN cms
        THEN [ret |-> None, raised |-> TRUE, ticked |-> TRUE,
              objects |-> st.objects, commits |-> cms, branches |-> brs]
        ELSE [ret |-> cid, raised |-> FALSE, ticked |-> TRUE,
              objects |-> st.objects,
              commits |-> insert_commit(cms, row),
              branches |-> update_head(brs, branch, cid)]

\* commit() from the serialised snapshot on: the id, the row and the new head.
\* raised is the sqlite3.IntegrityError of an INSERT whose id is already a row.
record_commit(objs, cms, brs, branch, snapshot, t, message) ==
    LET st == store_object(objs, json_dumps(snapshot))
        snap_hash == st.h
        parent == get_branch_head(brs, branch)
        ts == t
        cid == hash_content(commit_text(branch, ts, message, snap_hash))
        row == [id |-> cid, branch |-> branch, parent_id |-> parent,
                timestamp |-> ts, message |-> message, author |-> "user",
                snapshot |-> snap_hash]
    IN  IF cid \in DOMAIN cms
        THEN [ret |-> None, raised |-> TRUE, ticked |-> TRUE,
              objects |-> st.objects, commits |-> cms, branches |-> brs]
        ELSE [ret |-> cid, raised |-> FALSE, ticked |-> TRUE,
              objects |-> st.objects,
              commits |-> insert_commit(cms, row),
              branches |-> update_head(brs, branch, cid)]

\* the check for an empty snapshot is missing
commit_allow_empty(objs, cms, brs, cur, tr, t, message) ==
    LET taken == take_snapshot(tr, objs)
    IN  IF cur = NoBranch
        THEN [ret |-> None, raised |-> FALSE, ticked |-> FALSE,
              objects |-> objs, commits |-> cms, branches |-> brs]
        ELSE record_commit(taken.objects, cms, brs, cur, taken.snapshot, t, message)

\* a tree whose paths and digests are those of the head snapshot is refused
commit_refuse_unchanged(objs, cms, brs, cur, tr, t, message) ==
    LET branch == cur
        taken == take_snapshot(tr, objs)
        snapshot == taken.snapshot
        head == get_branch_head(brs, branch)
        data == IF head \in DOMAIN cms THEN read_object(objs, cms[head].snapshot) ELSE NoBytes
        old == IF data = NoBytes THEN EmptyMap ELSE json_loads(data)
    IN  IF branch = NoBranch
        THEN [ret |-> None, raised |-> FALSE, ticked |-> FALSE,
              objects |-> objs, commits |-> cms, branches |-> brs]
        ELSE IF DOMAIN snapshot = {}
                \/ [q \in DOMAIN snapshot |-> snapshot[q].hash]
                      = [q \in DOMAIN old |-> old[q].hash]
        THEN [ret |-> None, raised |-> FALSE, ticked |-> FALSE,
              objects |-> taken.objects, commits |-> cms, branches |-> brs]
        ELSE record_commit(taken.objects, cms, brs, branch, snapshot, t, message)

\* commit(): what it returns and what it leaves in the stores; ticked says
\* whether it read time.time()
commit(objs, cms, brs, cur, tr, t, message) ==
    LET branch == cur
        taken == take_snapshot(tr, objs)
        snapshot == taken.snapshot
    IN  IF branch = NoBranch
        THEN [ret |-> None, raised |-> FALSE, ticked |-> FALSE,
              objects |-> objs, commits |-> cms, branches |-> brs]
        ELSE IF DOMAIN snapshot = {}
        THEN [ret |-> None, raised |-> FALSE, ticked |-> FALSE,
              objects |-> taken.objects, commits |-> cms, branches |-> brs]
        ELSE record_commit(taken.objects, cms, brs, branch, snapshot, t, message)

NoSnapshot == [some |-> FALSE, snap |-> EmptyMap]

\* Optional[dict]: some is FALSE for None
get_commit_snapshot(cms, objs, cid) ==
    IF cid \notin DOMAIN cms
    THEN NoSnapshot
    ELSE LET data == read_object(objs, cms[cid].snapshot)
         IN  IF data = NoBytes \/ data = Raw(<<>>)
             THEN NoSnapshot
             ELSE [some |-> TRUE, snap |-> json_loads(data)]

\* get_working_changes(): the baseline is the snapshot of the current branch's
\* head, {} without a head
get_working_changes(brs, cms, objs, cur, tr) ==
    LET branch == cur
        head == IF branch # NoBranch THEN get_branch_head(brs, branch) ELSE None
        last_snap == IF head # None
                     THEN get_commit_snapshot(cms, objs, head).snap
                     ELSE EmptyMap
    IN  classify(last_snap, file_index(tr))

\* ORDER BY timestamp DESC
RECURSIVE order_by_timestamp_desc(_, _)
order_by_timestamp_desc(cms, ids) ==
    IF ids = {}
    THEN <<>>
    ELSE LET newest == CHOOSE c \in ids :
                          \A d \in ids : cms[d].timestamp <= cms[c].timestamp
         IN  <<newest>> \o order_by_timestamp_desc(cms, ids \ {newest})

\* limit: int = 200
HistoryLimit == 200

\* get_history(branch, limit): the ids of the rows, newest first; branch is
\* NoBranch for a call without a branch
get_history(cms, branch, limit) ==
    LET ids == {c \in DOMAIN cms : branch = NoBranch \/ cms[c].branch = branch}
        rows == order_by_timestamp_desc(cms, ids)
    IN  SubSeq(rows, 1, IF Len(rows) < limit THEN Len(rows) ELSE limit)

--------------------------------------------------------------------------
(* Merge and diff *)

\* a conflict is recorded but the target's version is kept
merge_snapshots_target_wins(tgt_snap, src_snap) ==
    [merged |-> [fp \in DOMAIN tgt_snap \cup DOMAIN src_snap |->
                    IF fp \notin DOMAIN tgt_snap THEN src_snap[fp] ELSE tgt_snap[fp]],
     conflicts |-> SelectSeq(PathSeq, LAMBDA fp :
                      /\ fp \in DOMAIN src_snap
                      /\ fp \in DOMAIN tgt_snap
                      /\ tgt_snap[fp].hash # src_snap[fp].hash)]

\* merged and conflicts of merge_branch, from the two head snapshots
merge_snapshots(tgt_snap, src_snap) ==
    [merged |-> [fp \in DOMAIN tgt_snap \cup DOMAIN src_snap |->
                    IF fp \notin DOMAIN tgt_snap THEN src_snap[fp]
                    ELSE IF fp \in DOMAIN src_snap /\ tgt_snap[fp].hash # src_snap[fp].hash
                    THEN src_snap[fp]
                    ELSE tgt_snap[fp]],
     conflicts |-> SelectSeq(PathSeq, LAMBDA fp :
                      /\ fp \in DOMAIN src_snap
                      /\ fp \in DOMAIN tgt_snap
                      /\ tgt_snap[fp].hash # src_snap[fp].hash)]

\* removed also takes the paths whose digest differs
diff_commits_removed_by_hash(cms, objs, cid_a, cid_b) ==
    LET sa == get_commit_snapshot(cms, objs, cid_a).snap
        sb == get_commit_snapshot(cms, objs, cid_b).snap
    IN  [added |-> [k \in {k \in DOMAIN sb : k \notin DOMAIN sa} |-> sb[k]],
         removed |-> [k \in {k \in DOMAIN sa :
                                k \notin DOMAIN sb \/ sa[k].hash # sb[k].hash} |-> sa[k]],
         modified |-> [k \in {k \in DOMAIN sa : k \in DOMAIN sb /\ sa[k].hash # sb[k].hash} |->
                          [old |-> sa[k], new |-> sb[k]]]]

diff_commits(cms, objs, cid_a, cid_b) ==
    LET sa == get_commit_snapshot(cms, objs, cid_a).snap
        sb == get_commit_snapshot(cms, objs, cid_b).snap
    IN  [added |-> [k \in {k \in DOMAIN sb : k \notin DOMAIN sa} |-> sb[k]],
         removed |-> [k \in {k \in DOMAIN sa : k \notin DOMAIN sb} |-> sa[k]],
         modified |-> [k \in {k \in DOMAIN sa : k \in DOMAIN sb /\ sa[k].hash # sb[k].hash} |->
                          [old |-> sa[k], new |-> sb[k]]]]

--------------------------------------------------------------------------
(* The repository after VCS.init() on a project with no tracked file *)

Init ==
    /\ objects = EmptyMap
    /\ commits = EmptyMap
    /\ branches = [b \in {"main"} |-> [head_commit |-> None]]
    /\ current_branch = "main"
    /\ tags = EmptyMap
    /\ tree = EmptyMap
    /\ now = 0
    /\ last = [op |-> "init"]
    /\ steps = 0
    /\ calls = [pc |-> [t \in Writers \cup Readers |-> "call"],
                pos |-> [w \in Writers |-> 0],
                ret |-> [r \in Readers |-> NoBytes]]
    /\ scanner = [path |-> NoPath, project |-> NoProject, running |-> FALSE,
                  pc |-> "idle", files |-> <<>>,
                  caches |-> [pr \in Projects |-> <<>>],
                  finished |-> <<>>, requested |-> <<>>]

--------------------------------------------------------------------------
(* The user's editor and file manager, outside the VCS *)

WriteFile(p, c) ==
    /\ tree' = [q \in DOMAIN tree \cup {p} |->
                   IF q = p THEN [content |-> c, mtime |-> now] ELSE tree[q]]
    /\ last' = [op |-> "edit"]
    /\ UNCHANGED <<objects, commits, branches, current_branch, tags, now>>

\* an editor rewrites an existing file and sets its time with os.utime
ForceWrite(p, c, d) ==
    /\ p \in DOMAIN tree
    /\ tree[p].mtime + d >= 0
    /\ tree' = [tree EXCEPT ![p] = [content |-> c, mtime |-> tree[p].mtime + d]]
    /\ last' = [op |-> "edit"]
    /\ UNCHANGED <<objects, commits, branches, current_branch, tags, now>>

\* an object file is removed from the objects directory, outside the VCS
LoseObject(h) ==
    /\ h \in DOMAIN objects
    /\ objects' = [d \in DOMAIN objects \ {h} |-> objects[d]]
    /\ last' = [op |-> "lose_object"]
    /\ UNCHANGED <<commits, branches, current_branch, tags, tree, now>>

DeleteFile(p) ==
    /\ p \in DOMAIN tree
    /\ tree' = [q \in DOMAIN tree \ {p} |-> tree[q]]
    /\ last' = [op |-> "edit"]
    /\ UNCHANGED <<objects, commits, branches, current_branch, tags, now>>

--------------------------------------------------------------------------
(* _store_object and _read_object, statement by statement, in racing threads *)

RaceDigest == hash_content(RaceBytes)

\* a write of one byte at offset pos of a file: a file shorter than pos is
\* filled with zero bytes up to it
write_at(bytes, pos, byte) ==
    [i \in 1..(IF Len(bytes) > pos THEN Len(bytes) ELSE pos + 1) |->
        IF i = pos + 1 THEN byte
        ELSE IF i <= Len(bytes) THEN bytes[i]
        ELSE 0]

RaceFrame ==
    UNCHANGED <<commits, branches, current_branch, tags, tree, now, last, steps, scanner>>

\* if not p.exists():
StoreCheck(w) ==
    /\ calls.pc[w] = "call"
    /\ calls' = [calls EXCEPT !.pc[w] = IF RaceDigest \in DOMAIN objects
                                        THEN "done"
                                        ELSE "open"]
    /\ UNCHANGED objects
    /\ RaceFrame

\* p.parent.mkdir(...); open(p, 'wb'): the file is created or truncated
StoreOpen(w) ==
    /\ calls.pc[w] = "open"
    /\ objects' = [d \in DOMAIN objects \cup {RaceDigest} |->
                      IF d = RaceDigest THEN Raw(<<>>) ELSE objects[d]]
    /\ calls' = [calls EXCEPT !.pc[w] = "write", !.pos[w] = 0]
    /\ RaceFrame

\* f.write(content), flushed by the close of the with block: the bytes reach
\* the file at the offset of this open file, one after the other
StoreWrite(w) ==
    /\ calls.pc[w] = "write"
    /\ objects' = [objects EXCEPT ![RaceDigest] =
                      Raw(write_at(objects[RaceDigest].bytes, calls.pos[w],
                                   RaceBytes.bytes[calls.pos[w] + 1]))]
    /\ calls' = [calls EXCEPT !.pos[w] = calls.pos[w] + 1,
                              !.pc[w] = IF calls.pos[w] + 1 = Len(RaceBytes.bytes)
                                        THEN "close"
                                        ELSE "write"]
    /\ RaceFrame

\* the with block closes the file; return h
StoreClose(w) ==
    /\ calls.pc[w] = "close"
    /\ calls' = [calls EXCEPT !.pc[w] = "done"]
    /\ UNCHANGED objects
    /\ RaceFrame

\* if p.exists(): ... return None
ReadCheck(r) ==
    /\ calls.pc[r] = "call"
    /\ calls' = [calls EXCEPT !.pc[r] = IF RaceDigest \in DOMAIN objects
                                        THEN "read"
                                        ELSE "done"]
    /\ UNCHANGED objects
    /\ RaceFrame

\* with open(p, 'rb') as f: return f.read()
ReadFile(r) ==
    /\ calls.pc[r] = "read"
    /\ calls' = [calls EXCEPT !.pc[r] = "done",
                              !.ret[r] = read_object(objects, RaceDigest)]
    /\ UNCHANGED objects
    /\ RaceFrame

NextRace ==
    \/ \E w \in Writers : StoreCheck(w)
    \/ \E w \in Writers : StoreOpen(w)
    \/ \E w \in Writers : StoreWrite(w)
    \/ \E w \in Writers : StoreClose(w)
    \/ \E r \in Readers : ReadCheck(r)
    \/ \E r \in Readers : ReadFile(r)

--------------------------------------------------------------------------
(* _FileScanWorker (src/src/ui/app.py): scan() in the UI thread, run() in the
   worker thread, statement by statement *)

ScanFrame ==
    UNCHANGED <<objects, commits, branches, current_branch, tags, tree, now, last, calls>>

\* scan(project): the fields are overwritten; the thread is started only when
\* it is not running
ScanCall(project) ==
    /\ steps < MaxScans
    /\ steps' = steps + 1
    /\ scanner' = [scanner EXCEPT
                      !.path = ProjectPath(project),
                      !.project = project,
                      !.requested = Append(scanner.requested, project),
                      !.running = TRUE,
                      !.pc = IF scanner.running THEN scanner.pc ELSE "run"]
    /\ ScanFrame

\* files = scan_directory(Path(self._path))
RunScan ==
    /\ scanner.pc = "run"
    /\ scanner' = [scanner EXCEPT !.files = DirFiles(scanner.path), !.pc = "update"]
    /\ UNCHANGED steps
    /\ ScanFrame

\* if self._project: self._project._cache.update(files)
RunUpdate ==
    /\ scanner.pc = "update"
    /\ scanner' = IF scanner.project # NoProject
                  THEN [scanner EXCEPT !.caches[scanner.project] = scanner.files,
                                       !.pc = "emit"]
                  ELSE [scanner EXCEPT !.pc = "emit"]
    /\ UNCHANGED steps
    /\ ScanFrame

\* self.finished.emit(self._path, files)
RunEmit ==
    /\ scanner.pc = "emit"
    /\ scanner' = [scanner EXCEPT
                      !.finished = Append(scanner.finished,
                                          [path |-> scanner.path, files |-> scanner.files]),
                      !.pc = "exit"]
    /\ UNCHANGED steps
    /\ ScanFrame

\* run() returns and the thread stops: isRunning() is false from here on
RunExit ==
    /\ scanner.pc = "exit"
    /\ scanner' = [scanner EXCEPT !.running = FALSE, !.pc = "idle"]
    /\ UNCHANGED steps
    /\ ScanFrame

NextScan ==
    \/ \E project \in Projects : ScanCall(project)
    \/ RunScan
    \/ RunUpdate
    \/ RunEmit
    \/ RunExit

--------------------------------------------------------------------------
(* The operations of VCS *)

Commit(message) ==
    LET r == commit(objects, commits, branches, current_branch, tree, now, message)
    IN  /\ objects' = r.objects
        /\ commits' = r.commits
        /\ branches' = r.branches
        /\ now' = IF r.ticked THEN now + 1 ELSE now
        /\ last' = [op |-> "commit", arg |-> message, ret |-> r.ret, raised |-> r.raised]
        /\ UNCHANGED <<current_branch, tags, tree>>

\* the new branch starts with no head instead of the current head
CreateBranch_no_head(name) ==
    /\ IF name \in DOMAIN branches
       THEN /\ last' = [op |-> "create_branch", arg |-> name, ret |-> FALSE]
            /\ UNCHANGED branches
       ELSE /\ branches' = [b \in DOMAIN branches \cup {name} |->
                              IF b = name THEN [head_commit |-> None] ELSE branches[b]]
            /\ last' = [op |-> "create_branch", arg |-> name, ret |-> TRUE]
    /\ UNCHANGED <<objects, commits, current_branch, tags, tree, now>>

CreateBranch(name) ==
    /\ IF name \in DOMAIN branches
       THEN /\ last' = [op |-> "create_branch", arg |-> name, ret |-> FALSE]
            /\ UNCHANGED branches
       ELSE LET head == get_branch_head(branches, current_branch)
            IN  /\ branches' = [b \in DOMAIN branches \cup {name} |->
                                  IF b = name
                                  THEN [head_commit |-> head]
                                  ELSE branches[b]]
                /\ last' = [op |-> "create_branch", arg |-> name, ret |-> TRUE]
    /\ UNCHANGED <<objects, commits, current_branch, tags, tree, now>>

\* a branch without a head is checked out as an empty tree
SwitchBranch_restore_empty(name) ==
    /\ IF name \notin DOMAIN branches
       THEN /\ last' = [op |-> "switch_branch", arg |-> name, ret |-> FALSE]
            /\ UNCHANGED <<tree, current_branch>>
       ELSE LET head == get_branch_head(branches, name)
                snap == get_commit_snapshot(commits, objects, head)
            IN  /\ tree' = IF head # None /\ snap.some /\ DOMAIN snap.snap # {}
                           THEN restore_snapshot(tree, objects, snap.snap, now)
                           ELSE restore_snapshot(tree, objects, EmptyMap, now)
                /\ current_branch' = name
                /\ last' = [op |-> "switch_branch", arg |-> name, ret |-> TRUE,
                            tree_before |-> tree]
    /\ UNCHANGED <<objects, commits, branches, tags, now>>

SwitchBranch(name) ==
    /\ IF name \notin DOMAIN branches
       THEN /\ last' = [op |-> "switch_branch", arg |-> name, ret |-> FALSE]
            /\ UNCHANGED <<tree, current_branch>>
       ELSE LET head == get_branch_head(branches, name)
                snap == get_commit_snapshot(commits, objects, head)
            IN  /\ tree' = IF head # None /\ snap.some /\ DOMAIN snap.snap # {}
                           THEN restore_snapshot(tree, objects, snap.snap, now)
                           ELSE tree
                /\ current_branch' = name
                /\ last' = [op |-> "switch_branch", arg |-> name, ret |-> TRUE,
                            tree_before |-> tree]
    /\ UNCHANGED <<objects, commits, branches, tags, now>>

\* the commits of the branch are deleted with its row
DeleteBranch_cascade(name) ==
    /\ IF name = current_branch
       THEN /\ last' = [op |-> "delete_branch", arg |-> name, ret |-> FALSE]
            /\ UNCHANGED <<branches, commits>>
       ELSE /\ branches' = [b \in DOMAIN branches \ {name} |-> branches[b]]
            /\ commits' = [c \in {c \in DOMAIN commits : commits[c].branch # name} |->
                              commits[c]]
            /\ last' = [op |-> "delete_branch", arg |-> name, ret |-> TRUE]
    /\ UNCHANGED <<objects, current_branch, tags, tree, now>>

\* the current branch can be deleted as well
DeleteBranch_any(name) ==
    /\ branches' = [b \in DOMAIN branches \ {name} |-> branches[b]]
    /\ last' = [op |-> "delete_branch", arg |-> name, ret |-> TRUE]
    /\ UNCHANGED <<objects, commits, current_branch, tags, tree, now>>

\* a name that is no branch is refused
DeleteBranch_checked(name) ==
    /\ IF name = current_branch \/ name \notin DOMAIN branches
       THEN /\ last' = [op |-> "delete_branch", arg |-> name, ret |-> FALSE]
            /\ UNCHANGED branches
       ELSE /\ branches' = [b \in DOMAIN branches \ {name} |-> branches[b]]
            /\ last' = [op |-> "delete_branch", arg |-> name, ret |-> TRUE]
    /\ UNCHANGED <<objects, commits, current_branch, tags, tree, now>>

DeleteBranch(name) ==
    /\ IF name = current_branch
       THEN /\ last' = [op |-> "delete_branch", arg |-> name, ret |-> FALSE]
            /\ UNCHANGED branches
       ELSE /\ branches' = [b \in DOMAIN branches \ {name} |-> branches[b]]
            /\ last' = [op |-> "delete_branch", arg |-> name, ret |-> TRUE]
    /\ UNCHANGED <<objects, commits, current_branch, tags, tree, now>>

\* a branch may be merged into itself
MergeBranch_self(source) ==
    LET target == current_branch
        source_head == get_branch_head(branches, source)
        target_head == get_branch_head(branches, target)
        src_snap == get_commit_snapshot(commits, objects, source_head).snap
        tgt == get_commit_snapshot(commits, objects, target_head)
        tgt_snap == IF target_head # None THEN tgt.snap ELSE EmptyMap
        m == merge_snapshots(tgt_snap, src_snap)
        restored == restore_snapshot(tree, objects, m.merged, now)
        message == <<"merge", source, target>>
        r == commit(objects, commits, branches, current_branch, restored, now, message)
    IN  IF target = NoBranch \/ source_head = None
        THEN /\ last' = [op |-> "merge_branch", arg |-> source,
                         ret |-> [success |-> FALSE]]
             /\ UNCHANGED <<objects, commits, branches, current_branch, tags, tree, now>>
        ELSE /\ target_head # None => tgt.some   \* dict(None) raises TypeError
             /\ tree' = restored
             /\ objects' = r.objects
             /\ commits' = r.commits
             /\ branches' = r.branches
             /\ now' = IF r.ticked THEN now + 1 ELSE now
             /\ last' = [op |-> "merge_branch", arg |-> source, raised |-> r.raised,
                         tree_before |-> tree,
                         ret |-> [success |-> TRUE, commit_id |-> r.ret,
                                  conflicts |-> m.conflicts,
                                  files_merged |-> Cardinality(DOMAIN src_snap)]]
             /\ UNCHANGED <<current_branch, tags>>

\* a merge with conflicting paths is refused
MergeBranch_abort_on_conflict(source) ==
    LET target == current_branch
        source_head == get_branch_head(branches, source)
        target_head == get_branch_head(branches, target)
        src_snap == get_commit_snapshot(commits, objects, source_head).snap
        tgt == get_commit_snapshot(commits, objects, target_head)
        tgt_snap == IF target_head # None THEN tgt.snap ELSE EmptyMap
        m == merge_snapshots(tgt_snap, src_snap)
        restored == restore_snapshot(tree, objects, m.merged, now)
        message == <<"merge", source, target>>
        r == commit(objects, commits, branches, current_branch, restored, now, message)
    IN  IF target = NoBranch \/ source = target \/ source_head = None
           \/ Len(m.conflicts) > 0
        THEN /\ last' = [op |-> "merge_branch", arg |-> source,
                         ret |-> [success |-> FALSE]]
             /\ UNCHANGED <<objects, commits, branches, current_branch, tags, tree, now>>
        ELSE /\ target_head # None => tgt.some   \* dict(None) raises TypeError
             /\ tree' = restored
             /\ objects' = r.objects
             /\ commits' = r.commits
             /\ branches' = r.branches
             /\ now' = IF r.ticked THEN now + 1 ELSE now
             /\ last' = [op |-> "merge_branch", arg |-> source, raised |-> r.raised,
                         tree_before |-> tree,
                         ret |-> [success |-> TRUE, commit_id |-> r.ret,
                                  conflicts |-> m.conflicts,
                                  files_merged |-> Cardinality(DOMAIN src_snap)]]
             /\ UNCHANGED <<current_branch, tags>>

\* files_merged counts the paths the merge added or overwrote
MergeBranch_count_changed(source) ==
    LET target == current_branch
        source_head == get_branch_head(branches, source)
        target_head == get_branch_head(branches, target)
        src_snap == get_commit_snapshot(commits, objects, source_head).snap
        tgt == get_commit_snapshot(commits, objects, target_head)
        tgt_snap == IF target_head # None THEN tgt.snap ELSE EmptyMap
        m == merge_snapshots(tgt_snap, src_snap)
        restored == restore_snapshot(tree, objects, m.merged, now)
        message == <<"merge", source, target>>
        r == commit(objects, commits, branches, current_branch, restored, now, message)
    IN  IF target = NoBranch \/ source = target \/ source_head = None
        THEN /\ last' = [op |-> "merge_branch", arg |-> source,
                         ret |-> [success |-> FALSE]]
             /\ UNCHANGED <<objects, commits, branches, current_branch, tags, tree, now>>
        ELSE /\ target_head # None => tgt.some   \* dict(None) raises TypeError
             /\ tree' = restored
             /\ objects' = r.objects
             /\ commits' = r.commits
             /\ branches' = r.branches
             /\ now' = IF r.ticked THEN now + 1 ELSE now
             /\ last' = [op |-> "merge_branch", arg |-> source, raised |-> r.raised,
                         tree_before |-> tree,
                         ret |-> [success |-> TRUE, commit_id |-> r.ret,
                                  conflicts |-> m.conflicts,
                                  files_merged |->
                                      Cardinality(DOMAIN src_snap \ DOMAIN tgt_snap)
                                          + Len(m.conflicts)]]
             /\ UNCHANGED <<current_branch, tags>>

\* message is None: the generated  f"... '{source}' -> '{target}'"
MergeBranch(source) ==
    LET target == current_branch
        source_head == get_branch_head(branches, source)
        target_head == get_branch_head(branches, target)
        src_snap == get_commit_snapshot(commits, objects, source_head).snap
        tgt == get_commit_snapshot(commits, objects, target_head)
        tgt_snap == IF target_head # None THEN tgt.snap ELSE EmptyMap
        m == merge_snapshots(tgt_snap, src_snap)
        restored == restore_snapshot(tree, objects, m.merged, now)
        message == <<"merge", source, target>>
        r == commit(objects, commits, branches, current_branch, restored, now, message)
    IN  IF target = NoBranch \/ source = target \/ source_head = None
        THEN /\ last' = [op |-> "merge_branch", arg |-> source,
                         ret |-> [success |-> FALSE]]
             /\ UNCHANGED <<objects, commits, branches, current_branch, tags, tree, now>>
        ELSE /\ target_head # None => tgt.some   \* dict(None) raises TypeError
             /\ tree' = restored
             /\ objects' = r.objects
             /\ commits' = r.commits
             /\ branches' = r.branches
             /\ now' = IF r.ticked THEN now + 1 ELSE now
             /\ last' = [op |-> "merge_branch", arg |-> source, raised |-> r.raised,
                         tree_before |-> tree,
                         ret |-> [success |-> TRUE, commit_id |-> r.ret,
                                  conflicts |-> m.conflicts,
                                  files_merged |-> Cardinality(DOMAIN src_snap)]]
             /\ UNCHANGED <<current_branch, tags>>

\* INSERT OR REPLACE INTO tags
CreateTag_replace(name, commit_id) ==
    LET cid == IF commit_id = None
               THEN get_branch_head(branches, current_branch)
               ELSE commit_id
    IN  /\ IF cid = None
           THEN /\ last' = [op |-> "create_tag", arg |-> name, ret |-> FALSE]
                /\ UNCHANGED tags
           ELSE /\ tags' = [t \in DOMAIN tags \cup {name} |->
                               IF t = name
                               THEN [commit_id |-> cid]
                               ELSE tags[t]]
                /\ last' = [op |-> "create_tag", arg |-> name, ret |-> TRUE]
        /\ UNCHANGED <<objects, commits, branches, current_branch, tree, now>>

\* commit_id is None for "the head of the current branch"
CreateTag(name, commit_id) ==
    LET cid == IF commit_id = None
               THEN get_branch_head(branches, current_branch)
               ELSE commit_id
    IN  /\ IF cid = None \/ name \in DOMAIN tags
           THEN /\ last' = [op |-> "create_tag", arg |-> name, ret |-> FALSE]
                /\ UNCHANGED tags
           ELSE /\ tags' = [t \in DOMAIN tags \cup {name} |->
                               IF t = name
                               THEN [commit_id |-> cid]
                               ELSE tags[t]]
                /\ last' = [op |-> "create_tag", arg |-> name, ret |-> TRUE]
        /\ UNCHANGED <<objects, commits, branches, current_branch, tree, now>>

\* the branch of the tagged commit becomes the current branch
GotoTag_checkout(name) ==
    LET snap == IF name \in DOMAIN tags
                THEN get_commit_snapshot(commits, objects, tags[name].commit_id)
                ELSE NoSnapshot
        found == name \in DOMAIN tags /\ snap.some /\ DOMAIN snap.snap # {}
    IN  /\ tree' = IF found THEN restore_snapshot(tree, objects, snap.snap, now) ELSE tree
        /\ current_branch' = IF found
                             THEN commits[tags[name].commit_id].branch
                             ELSE current_branch
        /\ last' = [op |-> "goto_tag", arg |-> name, ret |-> found, tree_before |-> tree]
        /\ UNCHANGED <<objects, commits, branches, tags, now>>

GotoTag(name) ==
    LET snap == IF name \in DOMAIN tags
                THEN get_commit_snapshot(commits, objects, tags[name].commit_id)
                ELSE NoSnapshot
        found == name \in DOMAIN tags /\ snap.some /\ DOMAIN snap.snap # {}
    IN  /\ tree' = IF found THEN restore_snapshot(tree, objects, snap.snap, now) ELSE tree
        /\ last' = [op |-> "goto_tag", arg |-> name, ret |-> found, tree_before |-> tree]
        /\ UNCHANGED <<objects, commits, branches, current_branch, tags, now>>

\* get_working_changes reads the stores and the index and changes nothing
WorkingChanges ==
    LET head == get_branch_head(branches, current_branch)
    IN  /\ head # None => get_commit_snapshot(commits, objects, head).some
        /\ last' = [op |-> "working_changes",
                    ret |-> get_working_changes(branches, commits, objects,
                                                current_branch, tree)]
        /\ UNCHANGED <<objects, commits, branches, current_branch, tags, tree, now>>

\* diff_commits reads the stores and changes nothing; the history view offers
\* it for two different rows (app.py, _history_context_menu)
DiffCommits(cid_a, cid_b) ==
    /\ cid_a # cid_b
    /\ last' = [op |-> "diff_commits", arg |-> <<cid_a, cid_b>>,
                ret |-> diff_commits(commits, objects, cid_a, cid_b)]
    /\ UNCHANGED <<objects, commits, branches, current_branch, tags, tree, now>>

\* every call and every edit is one step of a run of at most MaxOps steps
Step == steps < MaxOps /\ steps' = steps + 1 /\ UNCHANGED <<calls, scanner>>

Next ==
    \/ \E p \in Paths : \E c \in Contents(p) : Step /\ WriteFile(p, c)
    \/ \E p \in Paths : Step /\ DeleteFile(p)
    \/ \E message \in Messages : Step /\ Commit(message)
    \/ \E name \in BranchNames : Step /\ CreateBranch(name)
    \/ \E name \in BranchNames : Step /\ SwitchBranch(name)
    \/ \E name \in BranchNames : Step /\ DeleteBranch(name)
    \/ \E source \in BranchNames : Step /\ MergeBranch(source)
    \/ \E name \in TagNames : \E commit_id \in DOMAIN commits \cup {None} :
           Step /\ CreateTag(name, commit_id)
    \/ \E name \in TagNames : Step /\ GotoTag(name)
    \/ \E cid_a, cid_b \in DOMAIN commits \cup {None} : Step /\ DiffCommits(cid_a, cid_b)

Spec == Init /\ [][Next]_vars

StepChanges ==
    steps < MaxChangeOps /\ steps' = steps + 1 /\ UNCHANGED <<calls, scanner>>

\* the working tree under an editor that sets file times, and the calls that
\* move the baseline of get_working_changes
NextChanges ==
    \/ \E p \in Paths : \E c \in Contents(p) : StepChanges /\ WriteFile(p, c)
    \/ \E p \in Paths : StepChanges /\ DeleteFile(p)
    \/ \E p \in Paths : \E c \in ForcedContents(p) : \E d \in MtimeOffsets :
           StepChanges /\ ForceWrite(p, c, d)
    \/ \E message \in Messages : StepChanges /\ Commit(message)
    \/ \E name \in BranchNames : StepChanges /\ CreateBranch(name)
    \/ \E name \in BranchNames : StepChanges /\ SwitchBranch(name)
    \/ \E source \in BranchNames : StepChanges /\ MergeBranch(source)
    \/ StepChanges /\ WorkingChanges

SpecChanges == Init /\ [][NextChanges]_vars

StepRestore ==
    steps < MaxRestoreOps /\ steps' = steps + 1 /\ UNCHANGED <<calls, scanner>>

\* the calls that restore a snapshot, over a store that can lose object files
NextRestore ==
    \/ \E p \in Paths : \E c \in Contents(p) : StepRestore /\ WriteFile(p, c)
    \/ \E p \in Paths : StepRestore /\ DeleteFile(p)
    \/ \E h \in DOMAIN objects : StepRestore /\ LoseObject(h)
    \/ \E message \in Messages : StepRestore /\ Commit(message)
    \/ \E name \in BranchNames : StepRestore /\ CreateBranch(name)
    \/ \E name \in BranchNames : StepRestore /\ SwitchBranch(name)
    \/ \E name \in TagNames : \E commit_id \in DOMAIN commits \cup {None} :
           StepRestore /\ CreateTag(name, commit_id)
    \/ \E name \in TagNames : StepRestore /\ GotoTag(name)

SpecRestore == Init /\ [][NextRestore]_vars

SpecRace == Init /\ [][NextRace]_vars

SpecScan == Init /\ [][NextScan]_vars

--------------------------------------------------------------------------
(* The values the claims quantify over *)

FileBytes == UNION {Contents(p) : p \in Paths}

\* byte strings a caller can hand to the object store in this state: file
\* bytes, the serialised snapshot of the working tree, and whatever is stored
TestBytes ==
    FileBytes
        \cup {json_dumps(take_snapshot(tree, objects).snapshot)}
        \cup {objects[h] : h \in DOMAIN objects}

head_snapshot(brs, cms, objs, branch) ==
    get_commit_snapshot(cms, objs, get_branch_head(brs, branch)).snap

--------------------------------------------------------------------------
\* C1: in every reachable state of the repository, storing any byte string and
\* reading the returned digest gives back exactly those bytes, never an absent
\* result and never other bytes.
C1_RoundTrip ==
    \A b \in TestBytes :
        LET st == store_object(objects, b)
        IN  read_object(st.objects, st.h) = b

\* a commit has stored some file bytes (the empty file among them) while other
\* file bytes are not stored yet
C1_Witness ==
    /\ last.op = "commit"
    /\ hash_content(Raw(<<>>)) \in DOMAIN objects
    /\ read_object(objects, hash_content(Raw(<<>>))) = Raw(<<>>)
    /\ \E b \in FileBytes : hash_content(b) \notin DOMAIN objects

\* C2: storing the same bytes a second time returns the digest of the first
\* call and leaves the store exactly as the first call left it.
C2_StoreIdempotent ==
    \A b \in TestBytes :
        LET first == store_object(objects, b)
            second == store_object(first.objects, b)
        IN  /\ second.h = first.h
            /\ second.objects = first.objects

\* two commits of the same unchanged tree: the second stored every file and
\* the snapshot a second time
C2_Witness ==
    /\ last.op = "commit"
    /\ last.ret # None
    /\ \E c \in DOMAIN commits :
          /\ c # last.ret
          /\ commits[c].snapshot = commits[last.ret].snapshot
    /\ \E p \in DOMAIN tree : len(tree[p].content) > 0

\* the commit id a call returned, None when it returned none
returned_id(l) ==
    IF l.op = "commit" THEN l.ret
    ELSE IF l.op = "merge_branch" /\ l.ret.success THEN l.ret.commit_id
    ELSE None

\* the digests a working tree has, path by path
tree_digests(tr) == [p \in DOMAIN tr |-> hash_content(tr[p].content)]

snapshot_digests(snapshot) == [p \in DOMAIN snapshot |-> snapshot[p].hash]

\* C3: when commit() returns an id, get_commit_snapshot(id) has exactly the
\* tracked paths on disk at that moment, each with the digest of its content,
\* and no later call (commit, switch_branch, merge_branch, create_branch,
\* delete_branch, create_tag, goto_tag) changes the snapshot of a commit.
C3_Step ==
    /\ returned_id(last') # None =>
          LET s == get_commit_snapshot(commits', objects', returned_id(last'))
          IN  /\ s.some
              /\ snapshot_digests(s.snap) = tree_digests(tree')
              /\ DOMAIN tree' # {}
    /\ \A c \in DOMAIN commits :
          /\ get_commit_snapshot(commits, objects, c).some
          /\ get_commit_snapshot(commits', objects', c)
                = get_commit_snapshot(commits, objects, c)

C4_Step ==
    last'.op \in {"commit", "merge_branch"} =>
        \A b \in DOMAIN branches :
            b # current_branch =>
                /\ b \in DOMAIN branches'
                /\ branches'[b].head_commit = branches[b].head_commit

\* C4: every step of every run satisfies C4_Step
C4_BranchIsolation == [][C4_Step]_vars

\* a commit has moved the current head while another branch keeps an older head
C4_Witness ==
    /\ last.op = "commit"
    /\ last.ret # None
    /\ branches[current_branch].head_commit = last.ret
    /\ \E b \in DOMAIN branches :
          /\ b # current_branch
          /\ branches[b].head_commit # None
          /\ branches[b].head_commit # last.ret

\* C5: after a successful switch_branch(name) to a branch with head commit H
\* the tracked files are exactly the paths of get_commit_snapshot(H), each
\* holding the object stored under its digest, and name is the current branch.
C5_SwitchRestoresHead ==
    (last.op = "switch_branch" /\ last.ret
        /\ get_branch_head(branches, last.arg) # None) =>
        LET snap == head_snapshot(branches, commits, objects, last.arg)
        IN  /\ DOMAIN tree = DOMAIN snap
            /\ \A p \in DOMAIN snap :
                  /\ read_object(objects, snap[p].hash) # NoBytes
                  /\ tree[p].content = read_object(objects, snap[p].hash)
            /\ current_branch = last.arg

\* the switch discarded an uncommitted new file and an uncommitted change
C5_Witness ==
    /\ last.op = "switch_branch"
    /\ last.ret
    /\ get_branch_head(branches, last.arg) # None
    /\ \E p \in DOMAIN last.tree_before : p \notin DOMAIN tree
    /\ \E p \in DOMAIN last.tree_before \cap DOMAIN tree :
          last.tree_before[p].content # tree[p].content

\* C6: the conflicts a successful merge_branch(source) returns are exactly the
\* paths that the source head snapshot and the target head snapshot both have
\* with different digests, and after the merge each of them holds the source's
\* version on disk.
C6_Step ==
    (last'.op = "merge_branch" /\ last'.ret.success) =>
        LET src == head_snapshot(branches, commits, objects, last'.arg)
            tgt == head_snapshot(branches, commits, objects, current_branch)
            differing == {p \in DOMAIN src \cap DOMAIN tgt : src[p].hash # tgt[p].hash}
            conflicts == last'.ret.conflicts
        IN  /\ {conflicts[i] : i \in DOMAIN conflicts} = differing
            /\ Len(conflicts) = Cardinality(differing)
            /\ \A p \in differing :
                  /\ p \in DOMAIN tree'
                  /\ tree'[p].content = read_object(objects, src[p].hash)

\* C6: every step of every run satisfies C6_Step
C6_MergeConflicts == [][C6_Step]_vars

\* a merge reported a conflict
C6_Witness ==
    /\ last.op = "merge_branch"
    /\ last.ret.success
    /\ Len(last.ret.conflicts) > 0
    /\ last.ret.commit_id # None

\* C7: after a successful merge_branch(source) the snapshot of the current
\* branch's new head has the paths of the target head and of the source head;
\* a source path has the source's digest, a path of the target alone keeps the
\* target's digest; uncommitted changes of the working tree are not committed.
C7_Step ==
    (last'.op = "merge_branch" /\ last'.ret.success) =>
        LET src == head_snapshot(branches, commits, objects, last'.arg)
            tgt == head_snapshot(branches, commits, objects, current_branch)
            new == head_snapshot(branches', commits', objects', current_branch')
        IN  /\ get_branch_head(branches', current_branch') = last'.ret.commit_id
            /\ last'.ret.commit_id \notin DOMAIN commits
            /\ DOMAIN new = DOMAIN tgt \cup DOMAIN src
            /\ \A p \in DOMAIN src : new[p].hash = src[p].hash
            /\ \A p \in DOMAIN tgt \ DOMAIN src : new[p].hash = tgt[p].hash

\* C7: every step of every run satisfies C7_Step
C7_MergeSourceWinsUnion == [][C7_Step]_vars

\* the merge kept a path only the target had and discarded an uncommitted change
C7_Witness ==
    /\ last.op = "merge_branch"
    /\ last.ret.success
    /\ last.ret.commit_id \in DOMAIN commits
    /\ LET src == head_snapshot(branches, commits, objects, last.arg)
           tgt == get_commit_snapshot(commits, objects,
                                      commits[last.ret.commit_id].parent_id).snap
       IN  \E p \in DOMAIN tgt : p \notin DOMAIN src
    /\ \E p \in DOMAIN last.tree_before \cap DOMAIN tree :
          last.tree_before[p].content # tree[p].content

\* C8: for any two commit ids a and b, unknown ids included, the paths added
\* from a to b are the paths removed from b to a, the modified paths are the
\* same both ways, and added, removed and modified share no path.
C8_DiffSymmetry ==
    \A a, b \in DOMAIN commits \cup {None} :
        LET ab == diff_commits(commits, objects, a, b)
            ba == diff_commits(commits, objects, b, a)
        IN  /\ DOMAIN ab.added = DOMAIN ba.removed
            /\ DOMAIN ab.modified = DOMAIN ba.modified
            /\ DOMAIN ab.added \cap DOMAIN ab.removed = {}
            /\ DOMAIN ab.added \cap DOMAIN ab.modified = {}
            /\ DOMAIN ab.removed \cap DOMAIN ab.modified = {}

\* diff_commits returned an added path and a modified path
C8_Witness ==
    /\ last.op = "diff_commits"
    /\ DOMAIN last.ret.added # {}
    /\ DOMAIN last.ret.modified # {}
    /\ last.arg[1] \in DOMAIN commits
    /\ last.arg[2] \in DOMAIN commits

\* C9: commit() returns no id exactly when there is no current branch or the
\* tracked tree gives an empty snapshot, and then the commits, the branch
\* heads, the current branch, the object store and the working tree are as
\* they were.
C9_Step ==
    last'.op = "commit" =>
        /\ last'.ret = None <=>
              (current_branch = NoBranch
                  \/ DOMAIN take_snapshot(tree, objects).snapshot = {})
        /\ DOMAIN take_snapshot(tree, objects).snapshot = DOMAIN tree
        /\ last'.ret = None =>
              UNCHANGED <<commits, branches, current_branch, objects, tree>>
        /\ last'.ret # None => last'.ret \in DOMAIN commits' \ DOMAIN commits

\* C9: every step of every run satisfies C9_Step
C9_CommitRefusal == [][C9_Step]_vars

\* a commit was refused in a repository that has commits and objects
C9_Witness ==
    /\ last.op = "commit"
    /\ last.ret = None
    /\ DOMAIN tree = {}
    /\ DOMAIN commits # {}
    /\ branches[current_branch].head_commit # None

\* C10: create_branch(name) returns false and changes nothing when the branch
\* exists; otherwise it adds a branch whose head is the current branch's head,
\* makes no commit and leaves the current branch, the other heads and the
\* working tree as they were.
C10_Step ==
    last'.op = "create_branch" =>
        IF last'.arg \in DOMAIN branches
        THEN /\ last'.ret = FALSE
             /\ UNCHANGED <<objects, commits, branches, current_branch, tags, tree, now>>
        ELSE /\ last'.ret = TRUE
             /\ DOMAIN branches' = DOMAIN branches \cup {last'.arg}
             /\ branches'[last'.arg].head_commit
                   = get_branch_head(branches, current_branch)
             /\ \A b \in DOMAIN branches : branches'[b] = branches[b]
             /\ UNCHANGED <<objects, commits, current_branch, tags, tree>>

\* C10: every step of every run satisfies C10_Step
C10_CreateBranch == [][C10_Step]_vars

\* a branch was created at a head that is a commit
C10_Witness ==
    /\ last.op = "create_branch"
    /\ last.ret
    /\ last.arg # current_branch
    /\ branches[last.arg].head_commit \in DOMAIN commits
    /\ branches[last.arg].head_commit = branches[current_branch].head_commit

\* the ids a sequence of history rows holds
history_ids(rows) == {rows[i] : i \in DOMAIN rows}

\* C11: delete_branch(name) returns false and changes nothing when name is the
\* current branch; for another existing branch the row is removed while every
\* commit made on the branch stays in the commits table and is still returned
\* by history() without a branch (within its limit of 200 rows).
C11_Step ==
    last'.op = "delete_branch" =>
        IF last'.arg = current_branch
        THEN /\ last'.ret = FALSE
             /\ UNCHANGED <<objects, commits, branches, current_branch, tags, tree, now>>
        ELSE /\ last'.ret = TRUE
             /\ DOMAIN branches' = DOMAIN branches \ {last'.arg}
             /\ \A b \in DOMAIN branches' : branches'[b] = branches[b]
             /\ \A c \in DOMAIN commits :
                   /\ c \in DOMAIN commits'
                   /\ commits'[c] = commits[c]
                   /\ c \in history_ids(get_history(commits, NoBranch, HistoryLimit)) =>
                         c \in history_ids(get_history(commits', NoBranch, HistoryLimit))
             /\ UNCHANGED <<current_branch, tree>>

\* C11: every step of every run satisfies C11_Step
C11_DeleteBranch == [][C11_Step]_vars

\* a branch with a commit of its own was deleted and the commit is still a row
C11_Witness ==
    /\ last.op = "delete_branch"
    /\ last.ret
    /\ last.arg \notin DOMAIN branches
    /\ \E c \in DOMAIN commits :
          /\ commits[c].branch = last.arg
          /\ c \in history_ids(get_history(commits, NoBranch, HistoryLimit))
          /\ \A b \in DOMAIN branches : branches[b].head_commit # c

\* C12: switch_branch(name) returns false and leaves the current branch and the
\* working tree as they were when name is not a branch; when name is a branch
\* without a head commit it returns true, makes name the current branch and
\* leaves every file of the working tree untouched.
C12_Step ==
    last'.op = "switch_branch" =>
        /\ last'.arg \notin DOMAIN branches =>
              /\ last'.ret = FALSE
              /\ UNCHANGED <<current_branch, tree>>
        /\ (last'.arg \in DOMAIN branches /\ branches[last'.arg].head_commit = None) =>
              /\ last'.ret = TRUE
              /\ current_branch' = last'.arg
              /\ tree' = tree
        /\ UNCHANGED <<objects, commits, branches, tags>>

\* C12: every step of every run satisfies C12_Step
C12_SwitchRefusal == [][C12_Step]_vars

\* a switch to a branch without a head left the files of another branch's
\* commit on disk
C12_Witness ==
    /\ last.op = "switch_branch"
    /\ last.ret
    /\ current_branch = last.arg
    /\ branches[last.arg].head_commit = None
    /\ DOMAIN tree # {}
    /\ tree = last.tree_before
    /\ DOMAIN commits # {}

\* C13: merge_branch(source) returns success = false when there is no current
\* branch, when source is the current branch and when source has no head
\* commit (a name that is no branch included); then no commit is made, no head
\* moves and the working tree is not modified.
C13_Step ==
    last'.op = "merge_branch" =>
        /\ ~last'.ret.success <=>
              \/ current_branch = NoBranch
              \/ last'.arg = current_branch
              \/ get_branch_head(branches, last'.arg) = None
        /\ ~last'.ret.success =>
              UNCHANGED <<objects, commits, branches, current_branch, tags, tree, now>>

\* C13: every step of every run satisfies C13_Step
C13_MergeRefusal == [][C13_Step]_vars

\* a merge of a name that is no branch was refused in a repository with a
\* commit and an uncommitted file
C13_Witness ==
    /\ last.op = "merge_branch"
    /\ ~last.ret.success
    /\ last.arg \notin DOMAIN branches
    /\ last.arg # current_branch
    /\ branches[current_branch].head_commit # None
    /\ tree_digests(tree)
          # snapshot_digests(head_snapshot(branches, commits, objects, current_branch))

\* C14: goto_tag(name) on an existing tag returns true, leaves on disk exactly
\* the files of the tagged commit's snapshot with the bytes it recorded, and
\* changes neither the current branch nor a branch head nor the commits table.
C14_Step ==
    (last'.op = "goto_tag" /\ last'.arg \in DOMAIN tags) =>
        /\ last'.ret = TRUE
        /\ tags[last'.arg].commit_id \in DOMAIN commits
        /\ tree_digests(tree')
              = snapshot_digests(
                    get_commit_snapshot(commits, objects, tags[last'.arg].commit_id).snap)
        /\ UNCHANGED <<current_branch, branches, commits>>

\* C14: every step of every run satisfies C14_Step
C14_GotoTag == [][C14_Step]_vars

\* goto_tag replaced a tree that differed from the tagged snapshot, the tagged
\* commit being neither the current head nor a commit of the current branch
C14_Witness ==
    /\ last.op = "goto_tag"
    /\ last.ret
    /\ tree_digests(last.tree_before) # tree_digests(tree)
    /\ tags[last.arg].commit_id # branches[current_branch].head_commit
    /\ commits[tags[last.arg].commit_id].branch # current_branch

\* C15: create_tag with a name that is a tag returns false; every step leaves
\* every tag in the table with the commit id it had.
C15_Step ==
    /\ \A t \in DOMAIN tags : t \in DOMAIN tags' /\ tags'[t] = tags[t]
    /\ (last'.op = "create_tag" /\ last'.arg \in DOMAIN tags) => last'.ret = FALSE

\* C15: every step of every run satisfies C15_Step
C15_TagsImmutable == [][C15_Step]_vars

\* create_tag was refused for a name whose tag is on an older commit than the
\* head of the current branch
C15_Witness ==
    /\ last.op = "create_tag"
    /\ last.ret = FALSE
    /\ last.arg \in DOMAIN tags
    /\ branches[current_branch].head_commit # None
    /\ tags[last.arg].commit_id # branches[current_branch].head_commit

\* C16: every step leaves every row of the commits table in the table with all
\* its fields (branch, parent_id, timestamp, message, author, snapshot).
C16_Step ==
    \A c \in DOMAIN commits : c \in DOMAIN commits' /\ commits'[c] = commits[c]

\* C16: every step of every run satisfies C16_Step
C16_CommitsAppendOnly == [][C16_Step]_vars

\* a commit with a parent was stored and the parent's row is still there
C16_Witness ==
    /\ returned_id(last) # None
    /\ commits[returned_id(last)].parent_id \in DOMAIN commits

\* C17: a commit() that returns an id stores a new row under that id whose
\* parent_id is the head the current branch had before the call and whose
\* branch is the current branch, and makes the id the current branch's head.
C17_Step ==
    (last'.op = "commit" /\ last'.ret # None) =>
        /\ last'.ret \notin DOMAIN commits
        /\ last'.ret \in DOMAIN commits'
        /\ commits'[last'.ret].parent_id = branches[current_branch].head_commit
        /\ commits'[last'.ret].branch = current_branch
        /\ branches'[current_branch].head_commit = last'.ret
        /\ current_branch' = current_branch

\* C17: every step of every run satisfies C17_Step
C17_CommitParentAndHead == [][C17_Step]_vars

\* a commit was stored on top of an earlier head
C17_Witness ==
    /\ last.op = "commit"
    /\ last.ret # None
    /\ commits[last.ret].parent_id # None
    /\ branches[current_branch].head_commit = last.ret

\* the commits recorded on a branch name
commits_on(cms, branch) == {c \in DOMAIN cms : cms[c].branch = branch}

\* the commits that are the first recorded on their branch
first_commits(cms) ==
    {c \in DOMAIN cms :
        \A d \in commits_on(cms, cms[c].branch) : cms[c].timestamp <= cms[d].timestamp}

\* C18 as stated: the first commit recorded on a branch has no parent, for
\* every branch, the branches made with create_branch included.
C18_FirstCommitHasNoParent ==
    \A c \in first_commits(commits) : commits[c].parent_id = None

\* C18 amended: the first commit recorded on a branch has as parent the head
\* the branch had when the commit was made: none when the branch had no head,
\* and otherwise the commit the branch was created at by create_branch, which
\* is a row of the commits table recorded on another branch.
C18_Step ==
    (returned_id(last') # None /\ commits_on(commits, current_branch) = {}) =>
        LET cid == returned_id(last')
            parent == commits'[cid].parent_id
        IN  /\ commits'[cid].branch = current_branch
            /\ cid \in first_commits(commits')
            /\ parent = branches[current_branch].head_commit
            /\ parent # None =>
                  /\ parent \in DOMAIN commits
                  /\ commits[parent].branch # current_branch

\* C18 amended: every step of every run satisfies C18_Step
C18_FirstCommitParentIsForkPoint == [][C18_Step]_vars

\* the first commit on a branch made with create_branch has the commit of
\* another branch as its parent
C18_Witness ==
    /\ last.op = "commit"
    /\ last.ret # None
    /\ commits_on(commits, current_branch) = {last.ret}
    /\ commits[last.ret].parent_id \in DOMAIN commits
    /\ commits[commits[last.ret].parent_id].branch # current_branch

\* C19: when there is a current branch, source is another name and source has
\* a head commit, merge_branch returns success = true with the id of a commit
\* that was not a row before and is the current branch's new head, whatever
\* paths conflict; the source branch's row is unchanged and the history of the
\* current branch is the new commit followed by the history it had.
C19_Step ==
    (/\ last'.op = "merge_branch"
     /\ current_branch # NoBranch
     /\ last'.arg # current_branch
     /\ get_branch_head(branches, last'.arg) # None) =>
        LET cid == last'.ret.commit_id
        IN  /\ last'.ret.success
            /\ cid # None
            /\ cid \notin DOMAIN commits
            /\ cid \in DOMAIN commits'
            /\ current_branch' = current_branch
            /\ branches'[current_branch].head_commit = cid
            /\ branches'[last'.arg] = branches[last'.arg]
            /\ get_history(commits', current_branch, HistoryLimit)
                  = <<cid>> \o get_history(commits, current_branch, HistoryLimit)

\* C19: every step of every run satisfies C19_Step
C19_ConflictsNeverBlock == [][C19_Step]_vars

\* a merge with a conflicting path made a commit on a branch that had commits
C19_Witness ==
    /\ last.op = "merge_branch"
    /\ last.ret.success
    /\ Len(last.ret.conflicts) > 0
    /\ branches[current_branch].head_commit = last.ret.commit_id
    /\ Len(get_history(commits, current_branch, HistoryLimit)) >= 2
    /\ branches[last.arg].head_commit # last.ret.commit_id

\* the baseline get_working_changes compares with
baseline == head_snapshot(branches, commits, objects, current_branch)

\* C20: get_working_changes puts a path of the tree that is not in the head
\* snapshot of the current branch in added, a path of the snapshot that is not
\* in the tree in removed, and a path of both in modified exactly when its
\* time is 1 ms or more from the recorded time or its size is not the recorded
\* size; the three are pairwise disjoint, and a file with other bytes of the
\* recorded size at the recorded time is in none of them.
C20_WorkingChanges ==
    last.op = "working_changes" =>
        LET added == DOMAIN last.ret.added
            modified == DOMAIN last.ret.modified
            removed == DOMAIN last.ret.removed
        IN  /\ added = DOMAIN tree \ DOMAIN baseline
            /\ removed = DOMAIN baseline \ DOMAIN tree
            /\ modified \subseteq DOMAIN tree \cap DOMAIN baseline
            /\ \A p \in DOMAIN tree \cap DOMAIN baseline :
                  p \in modified <=>
                      \/ tree[p].mtime - baseline[p].mtime >= Epsilon
                      \/ baseline[p].mtime - tree[p].mtime >= Epsilon
                      \/ Len(tree[p].content.bytes) # baseline[p].size
            /\ added \cap modified = {}
            /\ added \cap removed = {}
            /\ modified \cap removed = {}
            /\ \A p \in DOMAIN tree \cap DOMAIN baseline :
                  (/\ hash_content(tree[p].content) # baseline[p].hash
                   /\ Len(tree[p].content.bytes) = baseline[p].size
                   /\ tree[p].mtime = baseline[p].mtime) =>
                      p \notin added \cup modified \cup removed

\* get_working_changes reported nothing for a file whose bytes are not the
\* committed ones, and for a file whose time is less than 1 ms off
C20_Witness ==
    /\ last.op = "working_changes"
    /\ \E p \in DOMAIN tree \cap DOMAIN baseline :
          /\ hash_content(tree[p].content) # baseline[p].hash
          /\ Len(tree[p].content.bytes) = baseline[p].size
          /\ tree[p].mtime # baseline[p].mtime
          /\ p \notin DOMAIN last.ret.modified
    /\ DOMAIN last.ret.added # {}

\* C22: in every reachable state the current-branch register holds one name
\* and the name is a row of the branches table.
C22_CurrentBranchExists ==
    /\ current_branch # NoBranch
    /\ current_branch \in DOMAIN branches

\* delete_branch was refused for the current branch, a branch that was
\* switched to, while another branch exists
C22_Witness ==
    /\ last.op = "delete_branch"
    /\ last.ret = FALSE
    /\ last.arg = current_branch
    /\ current_branch = "feat"
    /\ "main" \in DOMAIN branches

\* C23: every step leaves every object of the store in the store with the
\* bytes it had.
C23_Step ==
    \A h \in DOMAIN objects : h \in DOMAIN objects' /\ objects'[h] = objects[h]

\* C23: every step of every run satisfies C23_Step
C23_ObjectsOnlyGrow == [][C23_Step]_vars

\* a commit added objects to a store that held the objects of an earlier
\* commit with other file bytes
C23_Witness ==
    /\ returned_id(last) # None
    /\ commits[returned_id(last)].parent_id \in DOMAIN commits
    /\ commits[returned_id(last)].snapshot
          # commits[commits[returned_id(last)].parent_id].snapshot
    /\ commits[commits[returned_id(last)].parent_id].snapshot \in DOMAIN objects
    /\ tree_digests(tree)
          # snapshot_digests(get_commit_snapshot(commits, objects,
                                 commits[returned_id(last)].parent_id).snap)

\* C24: on a successful merge_branch(source) files_merged is the number of
\* paths of the source branch's head snapshot, whatever the target holds; with
\* main and feat each holding only x.txt with different bytes it is 1.
C24_Step ==
    (last'.op = "merge_branch" /\ last'.ret.success) =>
        /\ last'.ret.files_merged
              = Cardinality(DOMAIN head_snapshot(branches, commits, objects, last'.arg))
        /\ (/\ DOMAIN head_snapshot(branches, commits, objects, last'.arg) = {"x.txt"}
            /\ DOMAIN head_snapshot(branches, commits, objects, current_branch) = {"x.txt"}
            /\ head_snapshot(branches, commits, objects, last'.arg)["x.txt"].hash
                  # head_snapshot(branches, commits, objects, current_branch)["x.txt"].hash) =>
              /\ last'.ret.files_merged = 1
              /\ last'.ret.conflicts = <<"x.txt">>

\* C24: every step of every run satisfies C24_Step
C24_FilesMerged == [][C24_Step]_vars

\* a merge whose source snapshot is the target's: nothing is added or
\* overwritten and files_merged is the size of the source snapshot
C24_Witness ==
    /\ last.op = "merge_branch"
    /\ last.ret.success
    /\ last.ret.conflicts = <<>>
    /\ last.ret.files_merged = 1
    /\ tree_digests(last.tree_before) = tree_digests(tree)
    /\ branches[last.arg].head_commit # None

\* C27: in every reachable state the head of each branch is none or the id of
\* a row of the commits table whose snapshot digest is an object of the store.
C27_HeadIntegrity ==
    \A b \in DOMAIN branches :
        LET head == branches[b].head_commit
        IN  head # None =>
                /\ head \in DOMAIN commits
                /\ commits[head].snapshot \in DOMAIN objects

\* a branch was deleted while another branch, created at a commit, and the
\* current branch have different head commits
C27_Witness ==
    /\ last.op = "delete_branch"
    /\ \E a, b \in DOMAIN branches :
          /\ branches[a].head_commit # None
          /\ branches[b].head_commit # None
          /\ branches[a].head_commit # branches[b].head_commit

\* C29: delete_branch(name) for a name that is neither a branch nor the
\* current branch returns true and leaves the branches table, the commits
\* table, the current branch and the working tree as they were.
C29_Step ==
    (/\ last'.op = "delete_branch"
     /\ last'.arg \notin DOMAIN branches
     /\ last'.arg # current_branch) =>
        /\ last'.ret = TRUE
        /\ UNCHANGED <<branches, commits, current_branch, tree, objects, tags>>

\* C29: every step of every run satisfies C29_Step
C29_DeleteUnknownBranch == [][C29_Step]_vars

\* the third step of a run deleted a branch name that was never created, in a
\* repository with a commit
C29_Witness ==
    /\ last.op = "delete_branch"
    /\ last.ret = TRUE
    /\ steps = 3
    /\ DOMAIN commits # {}
    /\ DOMAIN branches = {"main"}

C28_Step ==
    (/\ last'.op = "commit"
     /\ current_branch # NoBranch
     /\ DOMAIN tree # {}) =>
        LET head == branches[current_branch].head_commit
            old == head_snapshot(branches, commits, objects, current_branch)
        IN  /\ last'.ret # None
            /\ last'.ret \notin DOMAIN commits
            /\ DOMAIN commits' = DOMAIN commits \cup {last'.ret}
            /\ \A c \in DOMAIN commits : commits'[c] = commits[c]
            /\ branches'[current_branch].head_commit = last'.ret
            /\ (head # None /\ tree_digests(tree) = snapshot_digests(old)) =>
                  (commits'[last'.ret].snapshot = commits[head].snapshot
                      <=> \A q \in DOMAIN tree : tree[q].mtime = old[q].mtime)

C30_Step ==
    (returned_id(last) # None /\ last'.op = "working_changes") =>
        /\ DOMAIN last'.ret.added = {}
        /\ DOMAIN last'.ret.modified = {}
        /\ DOMAIN last'.ret.removed = {}

restored_by(l) ==
    IF l.op = "switch_branch" /\ l.ret
    THEN head_snapshot(branches, commits, objects, l.arg)
    ELSE IF l.op = "goto_tag" /\ l.ret
    THEN get_commit_snapshot(commits, objects, tags[l.arg].commit_id).snap
    ELSE EmptyMap

\* C25: a restore of a snapshot raises nothing; a path whose object is missing
\* from the store is left as it was (a file keeps its bytes and its time, an
\* absent file stays absent), a tracked file that is no key of the snapshot is
\* deleted, and every other key is written with the bytes of its object.
C25_Step ==
    LET snapshot == restored_by(last')
    IN  DOMAIN snapshot # {} =>
            /\ last'.ret = TRUE
            /\ \A p \in Paths :
                  /\ p \notin DOMAIN snapshot => p \notin DOMAIN tree'
                  /\ (p \in DOMAIN snapshot /\ snapshot[p].hash \in DOMAIN objects) =>
                        /\ p \in DOMAIN tree'
                        /\ tree'[p].content = objects[snapshot[p].hash]
                  /\ (p \in DOMAIN snapshot /\ snapshot[p].hash \notin DOMAIN objects) =>
                        IF p \in DOMAIN tree
                        THEN p \in DOMAIN tree' /\ tree'[p] = tree[p]
                        ELSE p \notin DOMAIN tree'

\* C25: every step of every run satisfies C25_Step
C25_RestoreSkipsMissingObject == [][C25_Step]_vars

\* a restore skipped a file whose object is lost, leaving bytes on disk that
\* are not the snapshot's, and wrote another file of the snapshot
C25_Witness ==
    /\ last.op \in {"switch_branch", "goto_tag"}
    /\ last.ret
    /\ LET snapshot == restored_by(last)
       IN  /\ \E p \in DOMAIN snapshot \cap DOMAIN tree :
                 /\ snapshot[p].hash \notin DOMAIN objects
                 /\ hash_content(tree[p].content) # snapshot[p].hash
                 /\ tree[p] = last.tree_before[p]
           /\ \E q \in DOMAIN snapshot \cap DOMAIN tree :
                 /\ snapshot[q].hash \in DOMAIN objects
                 /\ tree[q].content = objects[snapshot[q].hash]
                 /\ tree[q].mtime = now

\* C21 as stated: in every state of every interleaving of the steps of
\* concurrent store(b) and read(digest(b)) calls, a finished read that returned
\* bytes returned exactly b, and once every store has finished the object
\* holds exactly b.
C21_RaceSafe ==
    /\ \A r \in Readers :
          (calls.pc[r] = "done" /\ calls.ret[r] # NoBytes) => calls.ret[r] = RaceBytes
    /\ (\A w \in Writers : calls.pc[w] = "done") =>
          read_object(objects, RaceDigest) = RaceBytes

\* C26 as stated: every finished signal carries the files scanned from the
\* path it carries, a project's cache holds only files scanned from that
\* project, and once the worker has stopped the project of the last scan()
\* call has a finished signal with its path and its files.
C26_ScanRequestsKept ==
    /\ \A i \in DOMAIN scanner.finished :
          scanner.finished[i].files = DirFiles(scanner.finished[i].path)
    /\ \A pr \in Projects :
          scanner.caches[pr] \in {<<>>, DirFiles(ProjectPath(pr))}
    /\ (scanner.pc = "idle" /\ scanner.requested # <<>>) =>
          \E i \in DOMAIN scanner.finished :
             LET asked == scanner.requested[Len(scanner.requested)]
             IN  /\ scanner.finished[i].path = ProjectPath(asked)
                 /\ scanner.finished[i].files = DirFiles(ProjectPath(asked))

====
